---- MODULE Spec2Model ----
(***************************************************************************)
(* Model of the request handlers of the attorney chatbot:                  *)
(*   src/app/api/chatbot/route.ts  (attorney finder: POST, GET)            *)
(*   src/app/api/lisa/route.ts     (LISA: POST, GET)                       *)
(* Strings are TLA+ strings read character by character, so that the       *)
(* lower-casing, the join and the two regular expressions of               *)
(* shouldTriggerSearch are computed the way the code computes them.        *)
(***************************************************************************)
EXTENDS Integers, Sequences, FiniteSets, TLC

(***************************************************************************)
(* Bounds of the model.                                                    *)
(***************************************************************************)
MaxTurns == 2

\* the user messages one conversation of the page may hold
MaxSends == 1

\* the user messages one conversation may hold in the runs of the
\* conversation alone
MaxExchanges == 2

\* the invocations that may wait at an await while another one runs
MaxParked == 1

(***************************************************************************)
(* Characters and JavaScript string primitives.                            *)
(***************************************************************************)
UpperAlphabet == "ABCDEFGHIJKLMNOPQRSTUVWXYZ"
LowerAlphabet == "abcdefghijklmnopqrstuvwxyz"

\* the character class [a-z]
Letters == { SubSeq(LowerAlphabet, i, i) : i \in 1..26 }

\* the characters \b treats as word characters: [A-Za-z0-9_]
WordChars ==
  Letters \cup { SubSeq(UpperAlphabet, i, i) : i \in 1..26 }
          \cup { "0", "1", "2", "3", "4", "5", "6", "7", "8", "9", "_" }

\* the character class \s (the members a request body can carry)
Whitespace == { " ", "\t", "\n", "\r", "\f" }

\* s.charAt(i - 1), "" outside the string
At(s, i) == IF i \in 1..Len(s) THEN SubSeq(s, i, i) ELSE ""

LowerChar(c) ==
  IF \E i \in 1..26 : SubSeq(UpperAlphabet, i, i) = c
  THEN LET i == CHOOSE j \in 1..26 : SubSeq(UpperAlphabet, j, j) = c
       IN  SubSeq(LowerAlphabet, i, i)
  ELSE c

\* String.prototype.toLowerCase, computed by halves
RECURSIVE ToLowerCase(_)
ToLowerCase(s) ==
  IF Len(s) = 0 THEN ""
  ELSE IF Len(s) = 1 THEN LowerChar(s)
  ELSE LET half == Len(s) \div 2
       IN  ToLowerCase(SubSeq(s, 1, half))
             \o ToLowerCase(SubSeq(s, half + 1, Len(s)))

\* Array.prototype.join: the elements separated by sep
RECURSIVE Join(_, _)
Join(strs, sep) ==
  IF Len(strs) = 0 THEN ""
  ELSE IF Len(strs) = 1 THEN strs[1]
  ELSE strs[1] \o sep \o Join(Tail(strs), sep)

(***************************************************************************)
(* Regular-expression primitives.  Positions are 1-based; position i is    *)
(* the point just before character i, and Len(s) + 1 is the end.           *)
(***************************************************************************)
\* \b at position i: exactly one of the two neighbours is a word character
WordBoundary(s, i) == (At(s, i - 1) \in WordChars) # (At(s, i) \in WordChars)

\* the literal t matches at position i
LiteralAt(s, i, t) ==
  /\ i + Len(t) - 1 <= Len(s)
  /\ SubSeq(s, i, i + Len(t) - 1) = t

\* [a-z]{n} matches at position i
LettersAt(s, i, n) == \A k \in i..(i + n - 1) : At(s, k) \in Letters

\* \s{n} matches at position i
SpacesAt(s, i, n) == \A k \in i..(i + n - 1) : At(s, k) \in Whitespace

\* \b(t1|t2|...)\b matches somewhere in s
MatchesWholeWord(s, terms) ==
  \E i \in 1..Len(s) :
    /\ WordBoundary(s, i)
    /\ \E t \in terms : LiteralAt(s, i, t) /\ WordBoundary(s, i + Len(t))

(***************************************************************************)
(* shouldTriggerSearch (chatbot/route.ts)                                  *)
(***************************************************************************)
LegalIssueTerms ==
  { "divorce", "custody", "criminal", "injury", "contract", "employment",
    "immigration", "bankruptcy", "estate", "personal injury", "family law",
    "criminal defense", "civil litigation", "real estate", "business law",
    "tax law", "intellectual property" }

LocationWords == { "city", "state", "located", "live" }

\* in [a-z]+ [a-z]+\b matches at position i
InPhraseAt(s, i) ==
  /\ LiteralAt(s, i, "in ")
  /\ \E a \in 1..(Len(s) - i) :
       /\ At(s, i + 3 + a) = " "
       /\ LettersAt(s, i + 3, a)
       /\ \E b \in 1..(Len(s) - i) :
            /\ WordBoundary(s, i + 4 + a + b)
            /\ LettersAt(s, i + 4 + a, b)

\* [a-z]+,\s*[a-z]{2}\b matches at position i
CityCommaCodeAt(s, i) ==
  \E a \in 1..(Len(s) - i) :
    /\ At(s, i + a) = ","
    /\ LettersAt(s, i, a)
    /\ \E w \in 0..(Len(s) - i) :
         /\ WordBoundary(s, i + a + 1 + w + 2)
         /\ LettersAt(s, i + a + 1 + w, 2)
         /\ SpacesAt(s, i + a + 1, w)

\* /\b(divorce|custody|...|intellectual property)\b/.test(conversation)
HasLegalIssue(conversation) == MatchesWholeWord(conversation, LegalIssueTerms)

\* /\b(city|state|located|live|in [a-z]+ [a-z]+|[a-z]+,\s*[a-z]{2})\b/
\*   .test(conversation)
HasLocation(conversation) ==
  \/ MatchesWholeWord(conversation, LocationWords)
  \/ \E i \in 1..Len(conversation) :
       /\ WordBoundary(conversation, i)
       /\ InPhraseAt(conversation, i) \/ CityCommaCodeAt(conversation, i)

\* messages.map(msg => msg.content)
Contents(messages) == [i \in 1..Len(messages) |-> messages[i].content]

\* variant: the bodies joined without the separating space
Conversation_NoSeparator(messages) ==
  ToLowerCase(Join(Contents(messages), ""))

\* messages.map(msg => msg.content).join(' ').toLowerCase()
Conversation(messages) == ToLowerCase(Join(Contents(messages), " "))

\* variant: only the user's turns are read
shouldTriggerSearch_UserTurnsOnly(messages) ==
  LET conversation ==
        Conversation(SelectSeq(messages, LAMBDA m : m.role = "user"))
  IN  HasLegalIssue(conversation) /\ HasLocation(conversation)

\* variant: one matching test is enough
shouldTriggerSearch_Either(messages) ==
  LET conversation == Conversation(messages)
  IN  HasLegalIssue(conversation) \/ HasLocation(conversation)

shouldTriggerSearch(messages) ==
  LET conversation == Conversation(messages)
  IN  HasLegalIssue(conversation) /\ HasLocation(conversation)

(***************************************************************************)
(* Values.  An optional JavaScript value (undefined or null when missing)  *)
(* is a sequence of length 0 or 1: << >> is the missing value, <<v>> is v. *)
(***************************************************************************)
Roles == { "user", "assistant", "system" }

SampleContents ==
  { "I need help with a divorce",
    "I live in Austin, TX",
    "Divorce attorney in Austin, TX",
    "Hello" }

\* interface ChatMessage
ChatMessage == [role : Roles, content : SampleContents]

\* the turns the requests are built from: user and assistant turns with
\* every sample body, a system turn with one
SampleTurns ==
  { m \in ChatMessage :
      m.role = "system" => m.content = "I need help with a divorce" }

TurnLists == UNION { [1..n -> SampleTurns] : n \in 0..MaxTurns }

\* the JSON values the 'messages' field of a request body can have
MessagesValues ==
  { [kind |-> k, turns |-> << >>] : k \in { "undefined", "null", "string" } }
    \cup { [kind |-> "array", turns |-> t] : t \in TurnLists }

SamplePrompts == { << >>, <<"">>, <<"Answer briefly.">> }
SampleModels == { << >>, <<"gpt-4o">> }
SampleLocations == { << >>, <<"Austin, TX">> }
SampleIssues == { << >>, <<"divorce">> }

\* the outcome of request.json(): a rejected promise (parsed is false) or the
\* parsed value, which is an object or, for the JSON text null, null (every
\* other value that is no object destructures like an object without the
\* fields); the attorney tab adds userLocation and legalIssue to its bodies.  The
\* fields other than messages take all their sample values with the turn
\* lists of at most one turn; longer lists come with the model missing and
\* the prompt missing or given
RequestBodies ==
  { [parsed |-> p, value |-> IF p THEN "null" ELSE "none",
     messages |-> [kind |-> "undefined", turns |-> << >>],
     prompt |-> << >>, model |-> << >>,
     userLocation |-> << >>, legalIssue |-> << >>] : p \in BOOLEAN }
    \cup { b \in [parsed : { TRUE }, value : { "object" },
                  messages : MessagesValues,
                  prompt : SamplePrompts, model : SampleModels,
                  userLocation : SampleLocations, legalIssue : SampleIssues] :
             /\ (b.userLocation = << >>) = (b.legalIssue = << >>)
             /\ b.userLocation # << >> => (b.prompt = << >> /\ b.model # << >>)
             /\ Len(b.messages.turns) > 1 =>
                  (b.model = << >> /\ b.prompt # <<"">>) }

\* the bodies sent to the attorney finder: the fields it does not read are
\* all missing or all given
ChatbotBodies ==
  { b \in RequestBodies :
      b.prompt = << >> /\ ((b.model = << >>) = (b.userLocation = << >>)) }

\* the bodies sent to LISA
LisaBodies == { b \in RequestBodies : b.userLocation = << >> }

\* process.env.NODE_ENV
NodeEnvs == { "development", "production" }

\* the messages of the errors a completion call can reject with
SampleErrors == { "Connection error.", "You exceeded your current quota." }

\* the messages of the errors thrown by request.json() and by choice.message
jsonErrorMessage == "Unexpected end of JSON input"
destructureErrorMessage ==
  "Cannot destructure property 'messages' of '(intermediate value)' as it is null."
typeErrorMessage == "Cannot read properties of undefined (reading 'message')"

AnnotationTypes == { "web_search", "url_citation" }
Annotation == [type : AnnotationTypes]
\* the annotation sequences a reply can carry: none, one of either type, two
SampleAnnotationLists ==
  { << >>,
    << [type |-> "web_search"] >>,
    << [type |-> "url_citation"] >>,
    << [type |-> "url_citation"], [type |-> "web_search"] >> }

\* choice.message of the provider: content may be null, annotations absent
AssistantMessages ==
  [content : { << >>, <<"">>, <<"Here are three attorneys.">> },
   annotations : { << >> } \cup { <<a>> : a \in SampleAnnotationLists }]

\* the resolved value of openai.chat.completions.create: no choice at all,
\* a choice without a message, or a choice with a message
Completions ==
  { [choices |-> << >>], [choices |-> << [message |-> << >>] >>] }
    \cup { [choices |-> << [message |-> <<m>>] >>] : m \in AssistantMessages }

\* variant: an empty array counts as falsy too
Falsy_EmptyArray(v) ==
  v.kind \in { "undefined", "null" } \/ (v.kind = "array" /\ v.turns = << >>)

\* !v for a 'messages' value: undefined and null are falsy
Falsy(v) == v.kind \in { "undefined", "null" }
\* variant: anything with a length passes for an array
IsArray_HasLength(v) == v.kind \in { "array", "string" }

\* Array.isArray(v)
IsArray(v) == v.kind = "array"

\* v || d for an optional string: missing and '' are falsy
OrString(v, d) == IF v = << >> \/ v[1] = "" THEN d ELSE v[1]
\* v || [] for an optional array: every array is truthy
OrEmptyArray(v) == IF v = << >> THEN << >> ELSE v[1]

\* completion.choices[0] ... ?.message?.content and ?.message?.annotations
MessageContent(choice) ==
  IF choice.message = << >> THEN << >> ELSE choice.message[1].content
MessageAnnotations(choice) ==
  IF choice.message = << >> THEN << >> ELSE choice.message[1].annotations

\* arr.slice(1)
Slice1(arr) == SubSeq(arr, 2, Len(arr))

\* arr.filter(m => m.role === 'user')
RECURSIVE FilterUser(_)
FilterUser(arr) ==
  IF Len(arr) = 0 THEN << >>
  ELSE IF arr[1].role = "user" THEN <<arr[1]>> \o FilterUser(Tail(arr))
  ELSE FilterUser(Tail(arr))

\* arr.slice(-1)
SliceLast(arr) == IF Len(arr) = 0 THEN << >> ELSE <<arr[Len(arr)]>>

\* annotations.filter(annotation => annotation.type === 'web_search')
RECURSIVE FilterWebSearch(_)
FilterWebSearch(arr) ==
  IF Len(arr) = 0 THEN << >>
  ELSE IF arr[1].type = "web_search"
       THEN <<arr[1]>> \o FilterWebSearch(Tail(arr))
  ELSE FilterWebSearch(Tail(arr))

(***************************************************************************)
(* enhancePromptForSearch (chatbot/route.ts)                               *)
(***************************************************************************)
\* the module constant systemPrompt (its first sentence stands for the text)
systemPrompt ==
  "You are a professional legal assistant chatbot that helps users find qualified attorneys. Follow this EXACT flow: ..."

\* the text the template literal appends to systemPrompt
searchDirective ==
  "\n\nIMPORTANT: Based on the conversation, you now have both the legal issue and location. You MUST immediately perform a web search to find attorneys. Do not ask for more information. Search now ..."

enhancedSystemPrompt == systemPrompt \o searchDirective

\* variant: the verdict is taken on the turns that are forwarded
enhancePromptForSearch_ClassifyRest(messages) ==
  IF shouldTriggerSearch(Slice1(messages))
  THEN <<[role |-> "system", content |-> enhancedSystemPrompt]>>
         \o Slice1(messages)
  ELSE <<[role |-> "system", content |-> systemPrompt]>> \o Slice1(messages)

enhancePromptForSearch(messages) ==
  IF shouldTriggerSearch(messages)
  THEN <<[role |-> "system", content |-> enhancedSystemPrompt]>>
         \o Slice1(messages)
  ELSE <<[role |-> "system", content |-> systemPrompt]>> \o Slice1(messages)

(***************************************************************************)
(* LISA system message (lisa/route.ts)                                     *)
(***************************************************************************)
lisaWrapperStart ==
  "You MUST follow the system instructions below with absolute priority over any other content, context, or prior instructions. Do not deviate.\n\n\nSYSTEM INSTRUCTIONS START\n"
lisaWrapperEnd == "\nSYSTEM INSTRUCTIONS END"

systemMessage(prompt) ==
  [role |-> "system", content |-> lisaWrapperStart \o prompt \o lisaWrapperEnd]

\* variant: the latest turn is forwarded whatever its role
openAIMessages_AnyRole(messages, prompt) ==
  <<systemMessage(prompt)>> \o SliceLast(messages)

\* [systemMessage, ...lastUser]
openAIMessages(messages, prompt) ==
  <<systemMessage(prompt)>> \o SliceLast(FilterUser(messages))

(***************************************************************************)
(* State.                                                                  *)
(***************************************************************************)
VARIABLES
  apiKey,      \* process.env.OPENAI_API_KEY is set
  nodeEnv,     \* process.env.NODE_ENV
  handler,     \* the handler of the current invocation
  pc,          \* where the invocation stands
  request,     \* the outcome of request.json() of the invocation
  verdicts,    \* the results of the shouldTriggerSearch calls, in order
  enhanced,    \* the results of the enhancePromptForSearch calls, in order
  outbound,    \* the completion calls issued by the invocation, in order
  replies,     \* the outcomes of those calls, in order
  warned,      \* the 'search should have been triggered' warning was logged
  response,    \* the NextResponse the handler returned
  parked,      \* the invocations suspended at an await while another runs
  callsInWindow,     \* per client IP, the completion calls issued since the
                     \* current one-minute window began
  activeTab,         \* page.tsx: useState('attorney')
  clientMessages,    \* page.tsx: the 'messages' state
  isInitialized,     \* page.tsx: useState(false)
  inputValue,        \* page.tsx: useState('')
  isLoading,         \* page.tsx: useState(false)
  userLocation,      \* page.tsx: useState('')
  legalIssue,        \* page.tsx: useState('')
  attorneyResults,   \* page.tsx: useState([])
  showAttorneyCard,  \* page.tsx: useState(false)
  selectedModel,     \* page.tsx: the 'model' state
  lisaPrompt,        \* page.tsx: useState(the default LISA prompt)
  showPromptEditor,  \* page.tsx: useState(false)
  fetching,          \* the fetch of sendMessage that has not settled yet
  justCleared,       \* history: the page's latest step was clearConversation
  lastSent           \* history: the turn list of the latest request sent
                     \* since the page was loaded, cleared or switched, if any

\* the environment and the locals of the running invocation
serverVars == <<apiKey, nodeEnv, handler, pc, request, verdicts, enhanced,
                outbound, replies, warned, response>>

\* the state of the page component
pageVars == <<activeTab, clientMessages, isInitialized, inputValue,
              isLoading, userLocation, legalIssue, attorneyResults,
              showAttorneyCard, selectedModel, lisaPrompt, showPromptEditor>>

\* the page and its outstanding fetch
clientVars == <<pageVars, fetching>>

vars ==
  <<serverVars, parked, callsInWindow, clientVars, justCleared, lastSent>>

\* the client IPs requests come from
ClientIPs == { "203.0.113.7", "198.51.100.9" }

\* no fetch is outstanding
NoFetch ==
  [stage |-> "none", tab |-> "attorney", endpoint |-> "", body |-> << >>]

\* the initial value of lisaPrompt, also set by resetLisaPrompt: the first
\* and the last paragraph of the text, whose middle plays no part here
defaultLisaPrompt ==
  "Identity\nYou are LISA (Legal Information Service Assistant). Your role is to help users navigate legal problems by providing accurate legal information, verified resources, attorney listings with phone numbers, practical next steps and guidance.\n\nTone: professional, plain-language, supportive, never legalistic."

Handlers == { "chatbotPOST", "lisaPOST", "chatbotGET", "lisaGET" }

NoRequest ==
  [parsed |-> FALSE, value |-> "none", messages |-> [kind |-> "undefined", turns |-> << >>],
   prompt |-> << >>, model |-> << >>,
   userLocation |-> << >>, legalIssue |-> << >>]
NoResponse == [status |-> 0]

\* NextResponse.json({ error }, { status })
ErrorResponse(status, error) == [status |-> status, error |-> error]

\* variant: the catch block answers with an empty message
UnexpectedError_Swallowed(message) ==
  [status |-> 200, message |-> "", annotations |-> << >>,
   searchTriggered |-> FALSE]

\* variant: the catch block reports the error's message in every mode
UnexpectedError_Detailed(message) ==
  [status |-> 500, error |-> "An unexpected error occurred. Please try again.",
   details |-> message]

\* the response of the catch blocks of the POST handlers for an error with
\* the given message: details is undefined, so absent, outside development
UnexpectedError(message) ==
  IF nodeEnv = "development"
  THEN [status |-> 500,
        error |-> "An unexpected error occurred. Please try again.",
        details |-> message]
  ELSE ErrorResponse(500, "An unexpected error occurred. Please try again.")

\* the outcome of a completion call that rejected with an error
Rejected(message) ==
  [threw |-> TRUE, completion |-> [choices |-> << >>], error |-> message]
Resolved(c) == [threw |-> FALSE, completion |-> c]

Init ==
  /\ apiKey \in BOOLEAN
  /\ nodeEnv \in NodeEnvs
  /\ handler = "none"
  /\ pc = "idle"
  /\ request = NoRequest
  /\ verdicts = << >>
  /\ enhanced = << >>
  /\ outbound = << >>
  /\ replies = << >>
  /\ warned = FALSE
  /\ response = NoResponse
  /\ parked = << >>
  /\ callsInWindow = [ip \in ClientIPs |-> 0]
  /\ activeTab = "attorney"
  /\ clientMessages = << >>
  /\ isInitialized = FALSE
  /\ inputValue = ""
  /\ isLoading = FALSE
  /\ userLocation = ""
  /\ legalIssue = ""
  /\ attorneyResults = << >>
  /\ showAttorneyCard = FALSE
  /\ selectedModel = "gpt-4o-search-preview"
  /\ lisaPrompt = defaultLisaPrompt
  /\ showPromptEditor = FALSE
  /\ fetching = NoFetch
  /\ justCleared = FALSE
  /\ lastSent = << >>

\* a new invocation starts with its own locals
Enter(h, body) ==
  /\ pc = "idle"
  /\ handler' = h
  /\ request' = body
  /\ replies' = << >>
  /\ warned' = FALSE
  /\ UNCHANGED <<apiKey, nodeEnv>>

\* the handler returns r
Return(r) == pc' = "done" /\ response' = r

(***************************************************************************)
(* Attorney finder: POST (chatbot/route.ts)                                *)
(***************************************************************************)
\* variant: the cap of the LISA call
ChatbotCall_LisaCap(messages) ==
  [model |-> "gpt-4o-search-preview", messages |-> messages,
   web_search_options |-> TRUE, max_tokens |-> 3000]

\* the argument of openai.chat.completions.create in the POST handler
ChatbotCall(messages) ==
  [model |-> "gpt-4o-search-preview", messages |-> messages,
   web_search_options |-> TRUE, max_tokens |-> 2000]

\* variant: only web_search annotations count for the flag
MessageResponse_WebSearchOnly(content, annotations) ==
  [status |-> 200, message |-> content, annotations |-> annotations,
   searchTriggered |-> Len(FilterWebSearch(annotations)) > 0]

\* NextResponse.json({ message, annotations, searchTriggered, ... }); the
\* timestamp and the provider's usage record, which the handler passes on
\* untouched, are left out of the responses
MessageResponse(content, annotations) ==
  [status |-> 200, message |-> content, annotations |-> annotations,
   searchTriggered |-> Len(annotations) > 0]

\* POST up to the await of the completion call, or up to its early return
ChatbotPOST(body) ==
  /\ Enter("chatbotPOST", body)
  /\ IF ~body.parsed
     THEN \* request.json() rejects: the catch block answers
          /\ Return(UnexpectedError(jsonErrorMessage))
          /\ verdicts' = << >> /\ enhanced' = << >> /\ outbound' = << >>
     ELSE IF body.value = "null"
     THEN \* const { messages } = null throws: the catch block answers
          /\ Return(UnexpectedError(destructureErrorMessage))
          /\ verdicts' = << >> /\ enhanced' = << >> /\ outbound' = << >>
     ELSE IF ~apiKey
     THEN /\ Return(ErrorResponse(500, "OpenAI API key not configured"))
          /\ verdicts' = << >> /\ enhanced' = << >> /\ outbound' = << >>
     ELSE IF Falsy(body.messages) \/ ~IsArray(body.messages)
     THEN /\ Return(ErrorResponse(400, "Invalid messages format"))
          /\ verdicts' = << >> /\ enhanced' = << >> /\ outbound' = << >>
     ELSE LET messages == body.messages.turns
              \* the request log evaluates shouldTriggerSearch(messages)
              logged == shouldTriggerSearch(messages)
              enhancedMessages == enhancePromptForSearch(messages)
          IN  /\ verdicts' = <<logged, shouldTriggerSearch(messages)>>
              /\ enhanced' = <<enhancedMessages>>
              /\ outbound' = <<ChatbotCall(enhancedMessages)>>
              /\ pc' = "awaitCompletion"
              /\ response' = NoResponse

\* POST after the completion call resolved with completion
ChatbotPOSTResolved(completion) ==
  /\ handler = "chatbotPOST" /\ pc = "awaitCompletion"
  /\ replies' = Append(replies, Resolved(completion))
  /\ IF Len(completion.choices) = 0
     THEN \* choice is undefined: choice.message throws, the catch answers
          /\ Return(UnexpectedError(typeErrorMessage))
          /\ UNCHANGED <<verdicts, warned>>
     ELSE LET choice == completion.choices[1]
              content == OrString(MessageContent(choice), "")
              annotations == OrEmptyArray(MessageAnnotations(choice))
              verdict == shouldTriggerSearch(request.messages.turns)
          IN  /\ verdicts' = Append(verdicts, verdict)
              /\ warned' = (verdict /\ Len(annotations) = 0)
              /\ Return(MessageResponse(content, annotations))
  /\ UNCHANGED <<apiKey, nodeEnv, handler, request, enhanced, outbound>>

\* POST after the completion call rejected: the catch block answers
ChatbotPOSTRejected(message) ==
  /\ handler = "chatbotPOST" /\ pc = "awaitCompletion"
  /\ replies' = Append(replies, Rejected(message))
  /\ Return(UnexpectedError(message))
  /\ UNCHANGED <<apiKey, nodeEnv, handler, request, verdicts, enhanced, outbound,
                 warned>>

(***************************************************************************)
(* LISA: POST (lisa/route.ts)                                              *)
(***************************************************************************)
\* the argument of openai.chat.completions.create in the LISA handler
LisaCall(messages, model) ==
  [model |-> OrString(model, "gpt-4o-search-preview"), messages |-> messages,
   web_search_options |-> TRUE, max_tokens |-> 3000]

\* variant: the prompt is validated before the turn list
LisaPOST_PromptFirst(body) ==
  /\ Enter("lisaPOST", body)
  /\ verdicts' = << >> /\ enhanced' = << >>
  /\ IF ~body.parsed
     THEN Return(UnexpectedError(jsonErrorMessage)) /\ outbound' = << >>
     ELSE IF body.value = "null"
     THEN Return(UnexpectedError(destructureErrorMessage)) /\ outbound' = << >>
     ELSE IF ~apiKey
     THEN /\ Return(ErrorResponse(500, "OpenAI API key not configured"))
          /\ outbound' = << >>
     ELSE IF body.prompt = << >> \/ body.prompt[1] = ""
     THEN /\ Return(ErrorResponse(400, "LISA prompt is required"))
          /\ outbound' = << >>
     ELSE IF Falsy(body.messages) \/ ~IsArray(body.messages)
     THEN /\ Return(ErrorResponse(400, "Invalid messages format"))
          /\ outbound' = << >>
     ELSE /\ outbound' =
               <<LisaCall(openAIMessages(body.messages.turns, body.prompt[1]),
                          body.model)>>
          /\ pc' = "awaitCompletion"
          /\ response' = NoResponse

\* POST up to the await of the completion call, or up to its early return
LisaPOST(body) ==
  /\ Enter("lisaPOST", body)
  /\ verdicts' = << >> /\ enhanced' = << >>
  /\ IF ~body.parsed
     THEN Return(UnexpectedError(jsonErrorMessage)) /\ outbound' = << >>
     ELSE IF body.value = "null"
     THEN Return(UnexpectedError(destructureErrorMessage)) /\ outbound' = << >>
     ELSE IF ~apiKey
     THEN /\ Return(ErrorResponse(500, "OpenAI API key not configured"))
          /\ outbound' = << >>
     ELSE IF Falsy(body.messages) \/ ~IsArray(body.messages)
     THEN /\ Return(ErrorResponse(400, "Invalid messages format"))
          /\ outbound' = << >>
     ELSE IF body.prompt = << >> \/ body.prompt[1] = ""
     THEN /\ Return(ErrorResponse(400, "LISA prompt is required"))
          /\ outbound' = << >>
     ELSE /\ outbound' =
               <<LisaCall(openAIMessages(body.messages.turns, body.prompt[1]),
                          body.model)>>
          /\ pc' = "awaitCompletion"
          /\ response' = NoResponse

\* POST after the completion call resolved with completion
LisaPOSTResolved(completion) ==
  /\ handler = "lisaPOST" /\ pc = "awaitCompletion"
  /\ replies' = Append(replies, Resolved(completion))
  /\ IF Len(completion.choices) = 0
     THEN Return(UnexpectedError(typeErrorMessage))
     ELSE LET choice == completion.choices[1]
              content == OrString(MessageContent(choice), "")
              annotations == OrEmptyArray(MessageAnnotations(choice))
          IN  Return(MessageResponse(content, annotations))
  /\ UNCHANGED <<apiKey, nodeEnv, handler, request, verdicts, enhanced, outbound,
                 warned>>

\* POST after the completion call rejected: the catch block answers
LisaPOSTRejected(message) ==
  /\ handler = "lisaPOST" /\ pc = "awaitCompletion"
  /\ replies' = Append(replies, Rejected(message))
  /\ Return(UnexpectedError(message))
  /\ UNCHANGED <<apiKey, nodeEnv, handler, request, verdicts, enhanced, outbound,
                 warned>>

(***************************************************************************)
(* Health checks: GET of both routes                                       *)
(***************************************************************************)
healthSystemContent ==
  "You are a health check service. You MUST use web search to find the current date. Do not rely on your training data. Always search for the current date and return it in a clear format. Only return the date, nothing else."

\* the argument of client.chat.completions.create for the given question
HealthCall(question) ==
  [model |-> "gpt-4o-search-preview-2025-03-11",
   messages |-> << [role |-> "system", content |-> healthSystemContent],
                   [role |-> "user", content |-> question] >>,
   web_search_options |-> TRUE, max_tokens |-> 50]

firstQuestion ==
  "Search for the current date and time right now. What is today's exact date and time?"
retryQuestion ==
  "Use web search to find the current date and time. Search for \"current date today\" and return the result."

\* response.choices[0]?.message?.content || 'Date unavailable'
DateOf(completion) ==
  IF Len(completion.choices) = 0 THEN "Date unavailable"
  ELSE OrString(MessageContent(completion.choices[1]), "Date unavailable")

\* variant: any annotation counts as a search result
HasSearchResults_AnyAnnotation(completion) ==
  /\ Len(completion.choices) > 0
  /\ Len(OrEmptyArray(MessageAnnotations(completion.choices[1]))) > 0

\* searchQueries.length > 0 for response.choices[0]?.message?.annotations || []
HasSearchResults(completion) ==
  /\ Len(completion.choices) > 0
  /\ Len(FilterWebSearch(
       OrEmptyArray(MessageAnnotations(completion.choices[1])))) > 0

\* NextResponse.json({ status: 'healthy', currentDate, searchToolUsed, ... })
HealthyResponse(currentDate, searchToolUsed) ==
  [status |-> 200, health |-> "healthy", currentDate |-> currentDate,
   searchToolUsed |-> searchToolUsed]

\* NextResponse.json({ status: 'error', message }, { status: 500 })
HealthError(message) == [status |-> 500, health |-> "error", message |-> message]

\* the response of the catch blocks of the GET handlers for an error with the
\* given message: error is undefined, so absent, outside development
HealthFailure(message, errorMessage) ==
  IF nodeEnv = "development"
  THEN [status |-> 500, health |-> "error", message |-> message,
        error |-> errorMessage]
  ELSE HealthError(message)

\* GET of the attorney finder up to its first await or early return
ChatbotGET ==
  /\ Enter("chatbotGET", NoRequest)
  /\ verdicts' = << >> /\ enhanced' = << >>
  /\ IF ~apiKey
     THEN /\ Return(HealthError("OpenAI API key not configured"))
          /\ outbound' = << >>
     ELSE /\ outbound' = <<HealthCall(firstQuestion)>>
          /\ pc' = "awaitCompletion"
          /\ response' = NoResponse

\* GET after the first call resolved
ChatbotGETResolved(completion) ==
  /\ handler = "chatbotGET" /\ pc = "awaitCompletion"
  /\ replies' = Append(replies, Resolved(completion))
  /\ IF ~HasSearchResults(completion)
     THEN /\ outbound' = Append(outbound, HealthCall(retryQuestion))
          /\ pc' = "awaitRetry"
          /\ UNCHANGED response
     ELSE /\ Return(HealthyResponse(DateOf(completion), TRUE))
          /\ UNCHANGED outbound
  /\ UNCHANGED <<apiKey, nodeEnv, handler, request, verdicts, enhanced, warned>>

\* variant: the retry is repeated while the search tool was not used
ChatbotGETRetryResolved_Again(completion) ==
  /\ handler = "chatbotGET" /\ pc = "awaitRetry"
  /\ replies' = Append(replies, Resolved(completion))
  /\ IF HasSearchResults(completion)
     THEN /\ Return(HealthyResponse(DateOf(completion), TRUE))
          /\ UNCHANGED outbound
     ELSE IF Len(outbound) < 3
     THEN /\ outbound' = Append(outbound, HealthCall(retryQuestion))
          /\ UNCHANGED <<pc, response>>
     ELSE /\ Return(HealthyResponse(DateOf(replies[1].completion), FALSE))
          /\ UNCHANGED outbound
  /\ UNCHANGED <<apiKey, nodeEnv, handler, request, verdicts, enhanced, warned>>

\* variant: the result of the retry is returned whatever it carries
ChatbotGETRetryResolved_RetryWins(completion) ==
  /\ handler = "chatbotGET" /\ pc = "awaitRetry"
  /\ replies' = Append(replies, Resolved(completion))
  /\ Return(HealthyResponse(DateOf(completion), HasSearchResults(completion)))
  /\ UNCHANGED <<apiKey, nodeEnv, handler, request, verdicts, enhanced, outbound,
                 warned>>

\* GET after the retry call resolved
ChatbotGETRetryResolved(completion) ==
  /\ handler = "chatbotGET" /\ pc = "awaitRetry"
  /\ replies' = Append(replies, Resolved(completion))
  /\ IF HasSearchResults(completion)
     THEN Return(HealthyResponse(DateOf(completion), TRUE))
     ELSE Return(HealthyResponse(DateOf(replies[1].completion),
                                 HasSearchResults(replies[1].completion)))
  /\ UNCHANGED <<apiKey, nodeEnv, handler, request, verdicts, enhanced, outbound,
                 warned>>

\* GET after either call rejected: the catch block answers
ChatbotGETRejected(message) ==
  /\ handler = "chatbotGET" /\ pc \in { "awaitCompletion", "awaitRetry" }
  /\ replies' = Append(replies, Rejected(message))
  /\ Return(HealthFailure("Health check failed", message))
  /\ UNCHANGED <<apiKey, nodeEnv, handler, request, verdicts, enhanced, outbound,
                 warned>>

\* GET of LISA
LisaGET ==
  /\ Enter("lisaGET", NoRequest)
  /\ verdicts' = << >> /\ enhanced' = << >> /\ outbound' = << >>
  /\ IF ~apiKey
     THEN Return(HealthError("OpenAI API key not configured"))
     ELSE Return([status |-> 200, health |-> "healthy"])

\* the framework has sent the response: the invocation and its locals are gone
Finish ==
  /\ pc = "done"
  /\ pc' = "idle"
  /\ handler' = "none"
  /\ request' = NoRequest
  /\ verdicts' = << >>
  /\ enhanced' = << >>
  /\ outbound' = << >>
  /\ replies' = << >>
  /\ warned' = FALSE
  /\ response' = NoResponse
  /\ UNCHANGED <<apiKey, nodeEnv>>

(***************************************************************************)
(* The page component (page.tsx).  A message of the page is its role, its  *)
(* content and its metadata; timestamps are left out.  Characters outside  *)
(* ASCII (the emoji of the welcome texts) are written ~: none of them is a *)
(* word character or a letter.                                             *)
(***************************************************************************)
Tabs == { "attorney", "lisa" }

attorneyWelcome ==
  "~ Hello! I'm your AI legal assistant. I'm here to help you find the right attorney for your legal needs.\n\nTo get started, please tell me:\n\n1~ **What legal issue are you facing?** (e.g., divorce, personal injury, criminal defense)\n2~ **Where are you located?** (city and state)\n\nI'll then search for qualified attorneys in your area who specialize in your specific legal matter."

lisaWelcome ==
  "~ Hello! I'm LISA (Legal Information Service Assistant). I'm here to help you analyze call transcripts and provide comprehensive legal information.\n\nTo get started, please paste your call transcript below. I'll analyze it and provide you with:\n\n~ **Call Summary**\n~ **Attorney Listings** (with verified contact info)\n~ **Legal Resources & Guides**\n~ **Documents & Forms**\n~ **Next-Step Checklist**\n~ **Court & Agency Contacts**\n\nPlease paste your call transcript and I'll help you navigate your legal situation."

\* const welcomeMessage = activeTab === 'attorney' ? ... : ...
welcomeMessage(tab) == IF tab = "attorney" THEN attorneyWelcome ELSE lisaWelcome

\* the content of errorMessage in the catch block of sendMessage
apology ==
  "I apologize, but I encountered an error. Please try again or check your internet connection."

\* what the user types into the message box
SampleInputs == { "", "  ", "Hello", "Divorce attorney in Austin, TX" }

\* the options of the model selector the runs choose among
ModelOptions == { "gpt-4o-search-preview", "gpt-4o" }

\* what the user types into the prompt editor
PromptInputs == { "" }

\* what the completion call resolves with behind the page: a reply with a
\* web search, or no choice at all
PageCompletions ==
  { [choices |-> << >>],
    [choices |-> << [message |->
        << [content |-> <<"Here are three attorneys.">>,
            annotations |-> << << [type |-> "web_search"] >> >>] >>] >>] }

\* a message without metadata: the welcome, a user message, the apology
Message(role, content) ==
  [role |-> role, content |-> content, metadata |-> << >>]

\* String.prototype.trim() leaves nothing
TrimIsEmpty(s) == \A i \in 1..Len(s) : At(s, i) \in Whitespace

\* String.prototype.includes
Includes(s, t) ==
  \E i \in 1..(Len(s) - Len(t) + 1) : SubSeq(s, i, i + Len(t) - 1) = t

\* data[name] of a parsed response: undefined when the response lacks it
DataField(data, name) ==
  IF name \in DOMAIN data THEN <<data[name]>> ELSE << >>

\* JSON.stringify of the messages as the handlers read them back: an array
\* of turns, of which they use role and content
BodyTurns(msgs) ==
  [kind |-> "array",
   turns |-> [i \in 1..Len(msgs) |->
                [role |-> msgs[i].role, content |-> msgs[i].content]]]

\* response.ok
ResponseOk(data) == data.status \in 200..299

\* the user messages of the conversation on the page
UserMessageCount ==
  Cardinality({ i \in 1..Len(clientMessages) : clientMessages[i].role = "user" })

\* the effect that shows the welcome message of the active tab
WelcomeEffect ==
  /\ ~isInitialized
  /\ clientMessages' = <<Message("assistant", welcomeMessage(activeTab))>>
  /\ isInitialized' = TRUE
  /\ UNCHANGED <<activeTab, inputValue, isLoading, userLocation, legalIssue,
                 attorneyResults, showAttorneyCard, selectedModel, lisaPrompt,
                 showPromptEditor, fetching>>

\* onChange of the message box, which is disabled while a request is out
setInputValue(value) ==
  /\ isInitialized /\ ~isLoading
  /\ inputValue' = value
  /\ UNCHANGED <<activeTab, clientMessages, isInitialized, isLoading,
                 userLocation, legalIssue, attorneyResults, showAttorneyCard,
                 selectedModel, lisaPrompt, showPromptEditor, fetching>>

\* onChange of the model selector
setModel(value) ==
  /\ isInitialized
  /\ selectedModel' = value
  /\ UNCHANGED <<activeTab, clientMessages, isInitialized, inputValue,
                 isLoading, userLocation, legalIssue, attorneyResults,
                 showAttorneyCard, lisaPrompt, showPromptEditor, fetching>>

\* the 'Edit Prompt' / 'Hide Prompt' button of the LISA tab
togglePromptEditor ==
  /\ isInitialized /\ activeTab = "lisa"
  /\ showPromptEditor' = ~showPromptEditor
  /\ UNCHANGED <<activeTab, clientMessages, isInitialized, inputValue,
                 isLoading, userLocation, legalIssue, attorneyResults,
                 showAttorneyCard, selectedModel, lisaPrompt, fetching>>

\* onChange of the prompt editor, rendered on the LISA tab when it is open
setLisaPrompt(value) ==
  /\ isInitialized /\ activeTab = "lisa" /\ showPromptEditor
  /\ lisaPrompt' = value
  /\ UNCHANGED <<activeTab, clientMessages, isInitialized, inputValue,
                 isLoading, userLocation, legalIssue, attorneyResults,
                 showAttorneyCard, selectedModel, showPromptEditor, fetching>>

\* the 'Reset to Original' button of the prompt editor
resetLisaPrompt ==
  /\ isInitialized /\ activeTab = "lisa" /\ showPromptEditor
  /\ lisaPrompt' = defaultLisaPrompt
  /\ UNCHANGED <<activeTab, clientMessages, isInitialized, inputValue,
                 isLoading, userLocation, legalIssue, attorneyResults,
                 showAttorneyCard, selectedModel, showPromptEditor, fetching>>

\* variant: the request carries the new user message alone
sendMessage_LatestOnly ==
  /\ isInitialized
  /\ IF TrimIsEmpty(inputValue) \/ isLoading
     THEN UNCHANGED clientVars
     ELSE LET userMessage == Message("user", inputValue)
              endpoint == IF activeTab = "attorney" THEN "/api/chatbot"
                          ELSE "/api/lisa"
              sent == BodyTurns(<<userMessage>>)
              requestBody ==
                IF activeTab = "attorney"
                THEN [parsed |-> TRUE, value |-> "object",
                      messages |-> sent, prompt |-> << >>,
                      model |-> <<selectedModel>>,
                      userLocation |-> <<userLocation>>,
                      legalIssue |-> <<legalIssue>>]
                ELSE [parsed |-> TRUE, value |-> "object", messages |-> sent,
                      prompt |-> <<lisaPrompt>>, model |-> <<selectedModel>>,
                      userLocation |-> << >>, legalIssue |-> << >>]
          IN  /\ clientMessages' = Append(clientMessages, userMessage)
              /\ inputValue' = ""
              /\ isLoading' = TRUE
              /\ fetching' = [stage |-> "sent", tab |-> activeTab,
                              endpoint |-> endpoint, body |-> requestBody]
              /\ UNCHANGED <<activeTab, isInitialized, userLocation,
                             legalIssue, attorneyResults, showAttorneyCard,
                             selectedModel, lisaPrompt, showPromptEditor>>

\* variant: an input of white space only is sent like any other
sendMessage_SendsBlank ==
  /\ isInitialized
  /\ IF inputValue = "" \/ isLoading
     THEN UNCHANGED clientVars
     ELSE LET userMessage == Message("user", inputValue)
              endpoint == IF activeTab = "attorney" THEN "/api/chatbot"
                          ELSE "/api/lisa"
              sent == BodyTurns(Append(clientMessages, userMessage))
              requestBody ==
                IF activeTab = "attorney"
                THEN [parsed |-> TRUE, value |-> "object",
                      messages |-> sent, prompt |-> << >>,
                      model |-> <<selectedModel>>,
                      userLocation |-> <<userLocation>>,
                      legalIssue |-> <<legalIssue>>]
                ELSE [parsed |-> TRUE, value |-> "object", messages |-> sent,
                      prompt |-> <<lisaPrompt>>, model |-> <<selectedModel>>,
                      userLocation |-> << >>, legalIssue |-> << >>]
          IN  /\ clientMessages' = Append(clientMessages, userMessage)
              /\ inputValue' = ""
              /\ isLoading' = TRUE
              /\ fetching' = [stage |-> "sent", tab |-> activeTab,
                              endpoint |-> endpoint, body |-> requestBody]
              /\ UNCHANGED <<activeTab, isInitialized, userLocation,
                             legalIssue, attorneyResults, showAttorneyCard,
                             selectedModel, lisaPrompt, showPromptEditor>>

\* sendMessage up to its await of fetch, or its early return
sendMessage ==
  /\ isInitialized
  /\ IF TrimIsEmpty(inputValue) \/ isLoading
     THEN UNCHANGED clientVars
     ELSE LET userMessage == Message("user", inputValue)
              endpoint == IF activeTab = "attorney" THEN "/api/chatbot"
                          ELSE "/api/lisa"
              sent == BodyTurns(Append(clientMessages, userMessage))
              requestBody ==
                IF activeTab = "attorney"
                THEN [parsed |-> TRUE, value |-> "object",
                      messages |-> sent, prompt |-> << >>,
                      model |-> <<selectedModel>>,
                      userLocation |-> <<userLocation>>,
                      legalIssue |-> <<legalIssue>>]
                ELSE [parsed |-> TRUE, value |-> "object", messages |-> sent,
                      prompt |-> <<lisaPrompt>>, model |-> <<selectedModel>>,
                      userLocation |-> << >>, legalIssue |-> << >>]
          IN  /\ clientMessages' = Append(clientMessages, userMessage)
              /\ inputValue' = ""
              /\ isLoading' = TRUE
              /\ fetching' = [stage |-> "sent", tab |-> activeTab,
                              endpoint |-> endpoint, body |-> requestBody]
              /\ UNCHANGED <<activeTab, isInitialized, userLocation,
                             legalIssue, attorneyResults, showAttorneyCard,
                             selectedModel, lisaPrompt, showPromptEditor>>

\* variant: a failed request shows the error text of the response
sendMessageSettled_ShowsError(data) ==
  /\ isInitialized /\ fetching.stage = "handling"
  /\ IF ~ResponseOk(data)
     THEN /\ clientMessages' =
               Append(clientMessages, Message("assistant", data.error))
          /\ UNCHANGED showAttorneyCard
     ELSE /\ clientMessages' =
               Append(clientMessages,
                      [role |-> "assistant", content |-> data.message,
                       metadata |-> << [detectedLocation |-> << >>,
                                        detectedIssue |-> << >>] >>])
          /\ showAttorneyCard' =
               IF fetching.tab = "attorney" /\ Includes(data.message, "attorney")
               THEN TRUE ELSE showAttorneyCard
  /\ isLoading' = FALSE
  /\ fetching' = NoFetch
  /\ UNCHANGED <<activeTab, isInitialized, inputValue, userLocation,
                 legalIssue, attorneyResults, selectedModel, lisaPrompt,
                 showPromptEditor>>

\* sendMessage after fetch resolved with the response data: the code after
\* the await runs with the activeTab of the render that sent the request
sendMessageSettled(data) ==
  /\ isInitialized /\ fetching.stage = "handling"
  /\ IF ~ResponseOk(data)
     THEN \* throw new Error(errorData.error || ...): the catch block
          /\ clientMessages' = Append(clientMessages, Message("assistant", apology))
          /\ UNCHANGED <<userLocation, legalIssue, showAttorneyCard>>
     ELSE LET detectedLocation == DataField(data, "detectedLocation")
              detectedIssue == DataField(data, "detectedIssue")
              assistantMessage ==
                [role |-> "assistant", content |-> data.message,
                 metadata |-> << [detectedLocation |-> detectedLocation,
                                  detectedIssue |-> detectedIssue] >>]
          IN  /\ clientMessages' = Append(clientMessages, assistantMessage)
              /\ IF fetching.tab = "attorney"
                 THEN /\ userLocation' =
                           IF /\ detectedLocation # << >>
                              /\ detectedLocation # <<"">>
                              /\ detectedLocation # <<"Not provided yet">>
                           THEN detectedLocation[1] ELSE userLocation
                      /\ legalIssue' =
                           IF /\ detectedIssue # << >>
                              /\ detectedIssue # <<"">>
                              /\ detectedIssue # <<"Not identified yet">>
                           THEN detectedIssue[1] ELSE legalIssue
                      /\ showAttorneyCard' =
                           IF \/ Includes(data.message, "attorney")
                              \/ Includes(data.message, "lawyer")
                              \/ Includes(data.message, "contact")
                              \/ Includes(data.message, "phone")
                           THEN TRUE ELSE showAttorneyCard
                 ELSE UNCHANGED <<userLocation, legalIssue, showAttorneyCard>>
  /\ isLoading' = FALSE
  /\ fetching' = NoFetch
  /\ UNCHANGED <<activeTab, isInitialized, inputValue, attorneyResults,
                 selectedModel, lisaPrompt, showPromptEditor>>

\* variant: the catch block leaves isLoading set
sendMessageFailed_KeepsLoading ==
  /\ isInitialized /\ fetching.stage = "sent"
  /\ clientMessages' = Append(clientMessages, Message("assistant", apology))
  /\ fetching' = NoFetch
  /\ UNCHANGED <<activeTab, isInitialized, inputValue, isLoading, userLocation,
                 legalIssue, attorneyResults, showAttorneyCard, selectedModel,
                 lisaPrompt, showPromptEditor>>

\* sendMessage after fetch rejected (the request did not get through)
sendMessageFailed ==
  /\ isInitialized /\ fetching.stage = "sent"
  /\ clientMessages' = Append(clientMessages, Message("assistant", apology))
  /\ isLoading' = FALSE
  /\ fetching' = NoFetch
  /\ UNCHANGED <<activeTab, isInitialized, inputValue, userLocation,
                 legalIssue, attorneyResults, showAttorneyCard, selectedModel,
                 lisaPrompt, showPromptEditor>>

\* variant: Clear Chat also restores the default prompt and model
clearConversation_ResetsSettings ==
  /\ isInitialized
  /\ clientMessages' = <<Message("assistant", welcomeMessage(activeTab))>>
  /\ userLocation' = ""
  /\ legalIssue' = ""
  /\ attorneyResults' = << >>
  /\ showAttorneyCard' = FALSE
  /\ lisaPrompt' = defaultLisaPrompt
  /\ selectedModel' = "gpt-4o-search-preview"
  /\ UNCHANGED <<activeTab, isInitialized, inputValue, isLoading,
                 showPromptEditor, fetching>>

\* the 'Clear Chat' button
clearConversation ==
  /\ isInitialized
  /\ clientMessages' = <<Message("assistant", welcomeMessage(activeTab))>>
  /\ userLocation' = ""
  /\ legalIssue' = ""
  /\ attorneyResults' = << >>
  /\ showAttorneyCard' = FALSE
  /\ UNCHANGED <<activeTab, isInitialized, inputValue, isLoading,
                 selectedModel, lisaPrompt, showPromptEditor, fetching>>

\* a click on a tab; the welcome effect runs after it
handleTabChange(tab) ==
  /\ isInitialized
  /\ activeTab' = tab
  /\ isInitialized' = FALSE
  /\ clientMessages' = << >>
  /\ userLocation' = ""
  /\ legalIssue' = ""
  /\ attorneyResults' = << >>
  /\ showAttorneyCard' = FALSE
  /\ showPromptEditor' = FALSE
  /\ UNCHANGED <<inputValue, isLoading, selectedModel, lisaPrompt, fetching>>

\* the request of the outstanding fetch reaches its route
Delivered == fetching' = [fetching EXCEPT !.stage = "handling"]

\* a step of the page alone, taken while no health probe is running
PageOnly ==
  /\ handler \notin { "chatbotGET", "lisaGET" }
  /\ UNCHANGED <<serverVars, parked, callsInWindow>>

\* a step of a handler alone
HandlerOnly == UNCHANGED <<parked, callsInWindow, clientVars, justCleared, lastSent>>

\* the page has been loaded and nothing was done on it yet: the moment at
\* which the runs probe the health endpoints
PageAtRest ==
  /\ isInitialized /\ fetching.stage = "none" /\ ~isLoading
  /\ activeTab = "attorney" /\ Len(clientMessages) = 1 /\ inputValue = ""
  /\ selectedModel = "gpt-4o-search-preview" /\ lisaPrompt = defaultLisaPrompt
  /\ ~justCleared

\* the page, the two POST handlers behind it and the health probes: one
\* request at a time reaches the server, which answers it before the page
\* handles the answer; a probe shares no state with the page and runs to its
\* end while the page is at rest
\* a step of the page that neither clears, switches nor sends
Kept == justCleared' = FALSE /\ UNCHANGED lastSent

\* the turn list of the request just issued is the latest one sent; the
\* early return of sendMessage sends nothing
NoteSent ==
  lastSent' = IF fetching.stage = "none" /\ fetching'.stage = "sent"
              THEN <<fetching'.body.messages.turns>> ELSE lastSent

NextApp ==
  \/ PageOnly /\ WelcomeEffect /\ Kept
  \/ PageOnly /\ Kept
       /\ \E value \in SampleInputs : setInputValue(value)
  \/ PageOnly /\ Kept
       /\ \E value \in ModelOptions : setModel(value)
  \/ PageOnly /\ togglePromptEditor /\ Kept
  \/ PageOnly /\ Kept
       /\ \E value \in PromptInputs : setLisaPrompt(value)
  \/ PageOnly /\ resetLisaPrompt /\ Kept
  \/ PageOnly /\ UserMessageCount < MaxSends /\ sendMessage
       /\ justCleared' = FALSE /\ NoteSent
  \/ PageOnly /\ sendMessageFailed /\ Kept
  \/ PageOnly /\ clearConversation /\ justCleared' = TRUE
       /\ lastSent' = << >>
  \/ PageOnly /\ justCleared' = FALSE /\ lastSent' = << >>
       /\ \E tab \in Tabs : handleTabChange(tab)
  \/ fetching.stage = "sent" /\ fetching.endpoint = "/api/chatbot"
       /\ ChatbotPOST(fetching.body) /\ Delivered
       /\ UNCHANGED <<pageVars, parked, callsInWindow, justCleared, lastSent>>
  \/ fetching.stage = "sent" /\ fetching.endpoint = "/api/lisa"
       /\ LisaPOST(fetching.body) /\ Delivered
       /\ UNCHANGED <<pageVars, parked, callsInWindow, justCleared, lastSent>>
  \/ pc = "awaitCompletion" /\ HandlerOnly
       /\ \E completion \in PageCompletions : ChatbotPOSTResolved(completion)
  \/ pc = "awaitCompletion" /\ HandlerOnly
       /\ \E message \in SampleErrors : ChatbotPOSTRejected(message)
  \/ pc = "awaitCompletion" /\ HandlerOnly
       /\ \E completion \in PageCompletions : LisaPOSTResolved(completion)
  \/ pc = "awaitCompletion" /\ HandlerOnly
       /\ \E message \in SampleErrors : LisaPOSTRejected(message)
  \/ pc = "done" /\ handler \in { "chatbotPOST", "lisaPOST" }
       /\ sendMessageSettled(response) /\ Finish
       /\ justCleared' = FALSE
       /\ UNCHANGED <<parked, callsInWindow, lastSent>>
  \/ PageAtRest /\ ChatbotGET /\ HandlerOnly
  \/ pc = "awaitCompletion" /\ HandlerOnly
       /\ \E completion \in PageCompletions : ChatbotGETResolved(completion)
  \/ pc = "awaitRetry" /\ HandlerOnly
       /\ \E completion \in PageCompletions :
            ChatbotGETRetryResolved(completion)
  \/ pc \in { "awaitCompletion", "awaitRetry" } /\ HandlerOnly
       /\ \E message \in SampleErrors : ChatbotGETRejected(message)
  \/ PageAtRest /\ LisaGET /\ HandlerOnly
  \/ pc = "done" /\ handler \in { "chatbotGET", "lisaGET" }
       /\ Finish /\ HandlerOnly

SpecApp == Init /\ [][NextApp]_vars

(***************************************************************************)
(* The conversation alone: the page with its message box, Send, Clear Chat *)
(* and the tabs, and the two POST handlers behind it.  The settings and    *)
(* the health probes are left to the runs of the whole page.               *)
(***************************************************************************)
\* what the user types into the message box in these runs
ConversationInputs == { "  ", "Hello", "I live in Austin, TX" }

\* fetch has carried the outstanding request to its route, which runs up
\* to its await or its early return
FetchDelivers ==
  \/ fetching.stage = "sent" /\ fetching.endpoint = "/api/chatbot"
       /\ ChatbotPOST(fetching.body) /\ Delivered
       /\ UNCHANGED <<pageVars, parked, callsInWindow, justCleared, lastSent>>
  \/ fetching.stage = "sent" /\ fetching.endpoint = "/api/lisa"
       /\ LisaPOST(fetching.body) /\ Delivered
       /\ UNCHANGED <<pageVars, parked, callsInWindow, justCleared, lastSent>>

\* the completion call of the handler resolves or rejects
CompletionSettles ==
  \/ pc = "awaitCompletion" /\ HandlerOnly
       /\ \E completion \in PageCompletions : ChatbotPOSTResolved(completion)
  \/ pc = "awaitCompletion" /\ HandlerOnly
       /\ \E message \in SampleErrors : ChatbotPOSTRejected(message)
  \/ pc = "awaitCompletion" /\ HandlerOnly
       /\ \E completion \in PageCompletions : LisaPOSTResolved(completion)
  \/ pc = "awaitCompletion" /\ HandlerOnly
       /\ \E message \in SampleErrors : LisaPOSTRejected(message)

\* fetch resolves with the response of the handler and sendMessage goes on
FetchResolves ==
  /\ pc = "done" /\ handler \in { "chatbotPOST", "lisaPOST" }
  /\ sendMessageSettled(response) /\ Finish
  /\ justCleared' = FALSE
  /\ UNCHANGED <<parked, callsInWindow, lastSent>>

\* fetch rejects and sendMessage goes on in its catch block
FetchRejects == PageOnly /\ sendMessageFailed /\ Kept

\* the user types, sends, clears and switches tabs at any moment; a request
\* is delivered, handled and answered, or fails on its way
ConversationNext ==
  \/ PageOnly /\ WelcomeEffect /\ Kept
  \/ PageOnly /\ Kept
       /\ \E value \in ConversationInputs : setInputValue(value)
  \/ PageOnly /\ UserMessageCount < MaxExchanges /\ sendMessage
       /\ justCleared' = FALSE /\ NoteSent
  \/ PageOnly /\ clearConversation /\ justCleared' = TRUE
       /\ lastSent' = << >>
  \/ PageOnly /\ justCleared' = FALSE /\ lastSent' = << >>
       /\ \E tab \in Tabs : handleTabChange(tab)
  \/ FetchDelivers
  \/ FetchRejects
  \/ CompletionSettles
  \/ FetchResolves

SpecConversation == Init /\ [][ConversationNext]_vars

\* every fetch resolves or rejects: a request that is not delivered fails
\* on its way, the completion call of a handler settles, and the code after
\* the await of fetch runs; the welcome effect runs right after the render
\* that follows a tab switch
ConversationFairness ==
  /\ WF_vars(PageOnly /\ WelcomeEffect /\ Kept)
  /\ SF_vars(FetchRejects)
  /\ WF_vars(CompletionSettles)
  /\ SF_vars(FetchResolves)

SpecConversationFair == SpecConversation /\ ConversationFairness

(***************************************************************************)
(* Concurrent invocations.  A handler runs until it awaits; while it waits *)
(* the event loop runs other invocations.  The variables handler .. response *)
(* are the locals of the invocation that is running; parked holds the      *)
(* locals of the invocations that wait.  Nothing else is kept between      *)
(* steps: the route modules assign no module-level variable.               *)
(***************************************************************************)
\* the locals of the running invocation
Invocation ==
  [handler |-> handler, pc |-> pc, request |-> request, verdicts |-> verdicts,
   enhanced |-> enhanced, outbound |-> outbound, replies |-> replies,
   warned |-> warned, response |-> response]

\* the locals of the invocation c become the running ones
Run(c) ==
  /\ handler' = c.handler
  /\ pc' = c.pc
  /\ request' = c.request
  /\ verdicts' = c.verdicts
  /\ enhanced' = c.enhanced
  /\ outbound' = c.outbound
  /\ replies' = c.replies
  /\ warned' = c.warned
  /\ response' = c.response
  /\ UNCHANGED <<apiKey, nodeEnv>>

\* no invocation is running
NoInvocation ==
  [handler |-> "none", pc |-> "idle", request |-> NoRequest,
   verdicts |-> << >>, enhanced |-> << >>, outbound |-> << >>,
   replies |-> << >>, warned |-> FALSE, response |-> NoResponse]

\* the sequence without its i-th element
RemoveAt(seq, i) == SubSeq(seq, 1, i - 1) \o SubSeq(seq, i + 1, Len(seq))

\* the running invocation waits at its await: the event loop is free
Park ==
  /\ pc \in { "awaitCompletion", "awaitRetry" }
  /\ Len(parked) < MaxParked
  /\ parked' = Append(parked, Invocation)
  /\ Run(NoInvocation)

\* the event loop turns to the i-th waiting invocation
Resume(i) ==
  /\ pc = "idle" /\ handler = "none"
  /\ i \in 1..Len(parked)
  /\ Run(parked[i])
  /\ parked' = RemoveAt(parked, i)

\* variant: the invocation turned to finds the request body of the one that
\* ran last, as if the body were kept in a module-level variable
Switch_SharedRequest(i) ==
  /\ pc \in { "awaitCompletion", "awaitRetry" }
  /\ i \in 1..Len(parked)
  /\ Run([parked[i] EXCEPT !.request = request])
  /\ parked' = [parked EXCEPT ![i] = Invocation]

\* the running invocation waits and the i-th waiting one is turned to
Switch(i) ==
  /\ pc \in { "awaitCompletion", "awaitRetry" }
  /\ i \in 1..Len(parked)
  /\ Run(parked[i])
  /\ parked' = [parked EXCEPT ![i] = Invocation]

\* the request bodies of the concurrent runs: a turn list whose assistant
\* turn names an issue and a location, one that names neither, the same
\* lists with the other fields given, and a body that is not an array
ConcurrentTurnLists ==
  { << [role |-> "assistant", content |-> "Divorce attorney in Austin, TX"],
       [role |-> "user", content |-> "Hello"] >>,
    << [role |-> "user", content |-> "Hello"],
       [role |-> "user", content |-> "I need help with a divorce"] >> }

ConcurrentBodies ==
  { b \in [parsed : { TRUE }, value : { "object" },
           messages : { [kind |-> "null", turns |-> << >>] }
                        \cup { [kind |-> "array", turns |-> t] :
                                 t \in ConcurrentTurnLists },
           prompt : { << >>, <<"Answer briefly.">> }, model : SampleModels,
           userLocation : SampleLocations, legalIssue : SampleIssues] :
      /\ (b.userLocation = << >>) = (b.legalIssue = << >>)
      /\ b.userLocation # << >> => (b.prompt = << >> /\ b.model # << >>) }

\* those sent to the attorney finder, which reads messages alone
ConcurrentChatbotBodies ==
  { b \in ConcurrentBodies :
      b.prompt = << >> /\ ((b.model = << >>) = (b.userLocation = << >>)) }

\* those sent to LISA
ConcurrentLisaBodies == { b \in ConcurrentBodies : b.userLocation = << >> }

\* the steps of the two POST handlers alone
PostOnly == UNCHANGED <<parked, callsInWindow, clientVars, justCleared, lastSent>>

\* an invocation alone is parked or turned to
LoopOnly == UNCHANGED <<callsInWindow, clientVars, justCleared, lastSent>>

\* requests are handled concurrently: a new one arrives whenever no
\* invocation is running
NextConcurrent ==
  \/ pc = "idle" /\ handler = "none" /\ PostOnly
       /\ \E body \in ConcurrentChatbotBodies : ChatbotPOST(body)
  \/ pc = "awaitCompletion" /\ PostOnly
       /\ \E completion \in PageCompletions : ChatbotPOSTResolved(completion)
  \/ pc = "awaitCompletion" /\ PostOnly
       /\ \E message \in SampleErrors : ChatbotPOSTRejected(message)
  \/ pc = "idle" /\ handler = "none" /\ PostOnly
       /\ \E body \in ConcurrentLisaBodies : LisaPOST(body)
  \/ pc = "awaitCompletion" /\ PostOnly
       /\ \E completion \in PageCompletions : LisaPOSTResolved(completion)
  \/ pc = "awaitCompletion" /\ PostOnly
       /\ \E message \in SampleErrors : LisaPOSTRejected(message)
  \/ Finish /\ PostOnly
  \/ Park /\ LoopOnly
  \/ LoopOnly /\ \E i \in 1..MaxParked : Resume(i)
  \/ LoopOnly /\ \E i \in 1..MaxParked : Switch(i)

SpecConcurrent == Init /\ [][NextConcurrent]_vars

(***************************************************************************)
(* Traffic.  callsInWindow counts, per client IP, the completion calls the *)
(* POST handlers issued since the current one-minute window began.         *)
(***************************************************************************)
\* README: '10 requests per minute per IP'
RateLimit == 10

\* one well-formed body for each POST handler and one that is rejected
TrafficBodies ==
  { b \in RequestBodies :
      /\ b.parsed /\ b.model = << >>
      /\ \/ b.messages.kind = "null"
         \/ /\ b.messages.kind = "array"
            /\ b.messages.turns = << [role |-> "user", content |-> "Hello"] >>
      /\ b.prompt \in { << >>, <<"Answer briefly.">> } }

\* a request from ip has been handled up to its await or early return
Counted(ip) ==
  callsInWindow' = [callsInWindow EXCEPT ![ip] = @ + Len(outbound')]

\* the one-minute window ends and the next begins
WindowElapses ==
  /\ callsInWindow' = [ip \in ClientIPs |-> 0]
  /\ UNCHANGED <<serverVars, parked, clientVars, justCleared, lastSent>>

\* a step of a handler that issues no call
Uncounted == UNCHANGED <<parked, callsInWindow, clientVars, justCleared, lastSent>>

\* requests of the client IPs, one at a time; an IP that has passed the
\* documented limit sends no more in the same window
NextTraffic ==
  \/ pc = "idle" /\ UNCHANGED <<parked, clientVars, justCleared, lastSent>>
       /\ \E ip \in ClientIPs :
            /\ callsInWindow[ip] <= RateLimit
            /\ \E body \in TrafficBodies \cap ChatbotBodies : ChatbotPOST(body)
            /\ Counted(ip)
  \/ pc = "awaitCompletion" /\ Uncounted
       /\ \E completion \in PageCompletions : ChatbotPOSTResolved(completion)
  \/ pc = "awaitCompletion" /\ Uncounted
       /\ \E message \in SampleErrors : ChatbotPOSTRejected(message)
  \/ pc = "idle" /\ UNCHANGED <<parked, clientVars, justCleared, lastSent>>
       /\ \E ip \in ClientIPs :
            /\ callsInWindow[ip] <= RateLimit
            /\ \E body \in TrafficBodies \cap LisaBodies : LisaPOST(body)
            /\ Counted(ip)
  \/ pc = "awaitCompletion" /\ Uncounted
       /\ \E completion \in PageCompletions : LisaPOSTResolved(completion)
  \/ pc = "awaitCompletion" /\ Uncounted
       /\ \E message \in SampleErrors : LisaPOSTRejected(message)
  \/ Finish /\ Uncounted
  \/ WindowElapses

SpecTraffic == Init /\ [][NextTraffic]_vars

\* the handlers alone: no page, no suspended invocation, no traffic count
ServerOnly == UNCHANGED <<parked, callsInWindow, clientVars, justCleared, lastSent>>

\* a request arrives only while no invocation is in progress
Next ==
  \/ pc = "idle" /\ ServerOnly /\ \E body \in ChatbotBodies : ChatbotPOST(body)
  \/ pc = "awaitCompletion" /\ ServerOnly /\
       \E completion \in Completions : ChatbotPOSTResolved(completion)
  \/ pc = "awaitCompletion" /\ ServerOnly /\
       \E message \in SampleErrors : ChatbotPOSTRejected(message)
  \/ pc = "idle" /\ ServerOnly /\ \E body \in LisaBodies : LisaPOST(body)
  \/ pc = "awaitCompletion" /\ ServerOnly /\
       \E completion \in Completions : LisaPOSTResolved(completion)
  \/ pc = "awaitCompletion" /\ ServerOnly /\
       \E message \in SampleErrors : LisaPOSTRejected(message)
  \/ ChatbotGET /\ ServerOnly
  \/ pc = "awaitCompletion" /\ ServerOnly /\
       \E completion \in Completions : ChatbotGETResolved(completion)
  \/ pc = "awaitRetry" /\ ServerOnly /\
       \E completion \in Completions : ChatbotGETRetryResolved(completion)
  \/ pc \in { "awaitCompletion", "awaitRetry" } /\ ServerOnly /\
       \E message \in SampleErrors : ChatbotGETRejected(message)
  \/ LisaGET /\ ServerOnly
  \/ Finish /\ ServerOnly

Spec == Init /\ [][Next]_vars

(***************************************************************************)
(* Properties.                                                             *)
(***************************************************************************)
POSTHandlers == { "chatbotPOST", "lisaPOST" }

\* the turn list of the current request
Turns == request.messages.turns

\* the request carried an object whose 'messages' is missing or not an array
MalformedTurns ==
  /\ request.parsed /\ request.value = "object"
  /\ request.messages.kind \in { "undefined", "null", "string" }

\* C1: shouldTriggerSearch returns true only if both tests match on the
\* concatenated, lower-cased turn bodies: whenever the transcript of the
\* request has a legal-issue term but no location token, or a location token
\* but no legal-issue term, every verdict taken for the request is false.
C1_TrueOnlyIfBothMatch ==
  handler = "chatbotPOST" =>
    LET transcript == ToLowerCase(Join(Contents(Turns), " "))
        legal == HasLegalIssue(transcript)
        location == HasLocation(transcript)
    IN  \A k \in 1..Len(verdicts) :
          /\ (legal /\ ~location) => verdicts[k] = FALSE
          /\ (location /\ ~legal) => verdicts[k] = FALSE
          /\ verdicts[k] = TRUE => (legal /\ location)

\* a request whose transcript has a legal-issue term and no location token
\* has been classified
C1_Witness ==
  /\ handler = "chatbotPOST" /\ Len(verdicts) > 0
  /\ Len(Turns) = 2
  /\ HasLegalIssue(Conversation(Turns))
  /\ ~HasLocation(Conversation(Turns))
  /\ verdicts[1] = FALSE

\* some turn of the list, taken alone, has a legal-issue term
SomeTurnHasLegalIssue(turns) ==
  \E i \in 1..Len(turns) : HasLegalIssue(ToLowerCase(turns[i].content))

\* some turn of the list, taken alone, has a location token
SomeTurnHasLocation(turns) ==
  \E j \in 1..Len(turns) : HasLocation(ToLowerCase(turns[j].content))

\* C2: when some turn contains a legal-issue term and some turn contains a
\* location token (the same turn or different ones, in any order, with any
\* role), every verdict taken for the request is true.
C2_BothPresentGivesTrue ==
  (/\ handler = "chatbotPOST"
   /\ SomeTurnHasLegalIssue(Turns)
   /\ SomeTurnHasLocation(Turns))
    => \A k \in 1..Len(verdicts) : verdicts[k] = TRUE

\* the location comes first, in an assistant turn, and the legal issue after
\* it, in a user turn, and neither turn has both
C2_Witness ==
  /\ handler = "chatbotPOST" /\ Len(verdicts) > 0 /\ Len(Turns) = 2
  /\ Turns[1].role = "assistant" /\ Turns[2].role = "user"
  /\ HasLocation(ToLowerCase(Turns[1].content))
  /\ ~HasLegalIssue(ToLowerCase(Turns[1].content))
  /\ HasLegalIssue(ToLowerCase(Turns[2].content))
  /\ ~HasLocation(ToLowerCase(Turns[2].content))
  /\ verdicts[1] = TRUE

\* rest keeps the relative order its turns have in input
OrderPreserved(rest, input) ==
  \E f \in [1..Len(rest) -> 1..Len(input)] :
    /\ \A i \in 1..Len(rest) : rest[i] = input[f[i]]
    /\ \A i, j \in 1..Len(rest) : i < j => f[i] < f[j]

\* C3: the sequence produced by enhancePromptForSearch contains exactly one
\* turn with role 'system', that turn is at position 0, and the remaining
\* turns appear in the same relative order as in the input.
C3_ExactlyOneSystemTurnFirst ==
  \A k \in 1..Len(enhanced) :
    LET out == enhanced[k]
    IN  /\ Len(out) >= 1
        /\ out[1].role = "system"
        /\ Cardinality({ i \in 1..Len(out) : out[i].role = "system" }) = 1
        /\ OrderPreserved(Tail(out), Turns)

\* arr.filter(m => m.role !== 'system')
RECURSIVE NonSystemTurns(_)
NonSystemTurns(arr) ==
  IF Len(arr) = 0 THEN << >>
  ELSE IF arr[1].role # "system"
       THEN <<arr[1]>> \o NonSystemTurns(Tail(arr))
  ELSE NonSystemTurns(Tail(arr))

\* C4: the turns that follow the system turn in the outbound payload of the
\* attorney finder are all of the caller's non-system turns: no user or
\* assistant turn of the caller is dropped.
C4_NoCallerTurnDropped ==
  (handler = "chatbotPOST" /\ Len(outbound) > 0) =>
    Tail(outbound[1].messages) = NonSystemTurns(Turns)

\* C5: the content of the system turn emitted by enhancePromptForSearch is
\* the baseline prompt followed by the 'search now' directive exactly when
\* the verdict for the full turn list is true and the unmodified baseline
\* exactly when it is false; the divorce turn followed by the Austin turn
\* gets the augmented prompt, the divorce turn alone the baseline.
C5_SystemContentFollowsVerdict ==
  \A k \in 1..Len(enhanced) :
    LET content == enhanced[k][1].content
    IN  /\ content \in { systemPrompt, enhancedSystemPrompt }
        /\ (content = enhancedSystemPrompt) <=> (verdicts[1] = TRUE)
        /\ (content = systemPrompt) <=> (verdicts[1] = FALSE)
        /\ Contents(Turns) = <<"I need help with a divorce",
                               "I live in Austin, TX">>
             => content = enhancedSystemPrompt
        /\ Contents(Turns) = <<"I need help with a divorce">>
             => content = systemPrompt

\* the divorce turn and the Austin turn were assembled
C5_Witness ==
  /\ Len(enhanced) = 1
  /\ Contents(Turns) = <<"I need help with a divorce", "I live in Austin, TX">>
  /\ enhanced[1][1].content = enhancedSystemPrompt
  /\ outbound[1].messages = enhanced[1]

\* neither the classifier, the assembler nor a completion call has run
NothingRan == verdicts = << >> /\ enhanced = << >> /\ outbound = << >>

\* C6 as stated: in both POST handlers a request whose 'messages' is absent,
\* null or not an array is rejected with status 400 'Invalid messages
\* format', and neither the classifier, the assembler nor a call runs.
C6_MalformedRejectedWith400 ==
  (handler \in POSTHandlers /\ MalformedTurns) =>
    /\ pc = "done"
    /\ response = [status |-> 400, error |-> "Invalid messages format"]
    /\ NothingRan

\* C6 as amended: such a request is rejected, with status 400 'Invalid
\* messages format' when the API key is configured and with status 500
\* 'OpenAI API key not configured' when it is not, and in both cases neither
\* the classifier, the assembler nor a completion call runs.
C6_MalformedRejectedBeforeAnyCall ==
  (handler \in POSTHandlers /\ MalformedTurns) =>
    /\ pc = "done"
    /\ apiKey => response = [status |-> 400, error |-> "Invalid messages format"]
    /\ ~apiKey =>
         response = [status |-> 500, error |-> "OpenAI API key not configured"]
    /\ NothingRan

\* the LISA handler has rejected a request whose 'messages' is a string
C6_Witness ==
  /\ handler = "lisaPOST" /\ apiKey /\ request.parsed
  /\ request.messages.kind = "string"
  /\ request.prompt = <<"Answer briefly.">>
  /\ response.status = 400

\* C7: when the completion call of a POST handler throws, the handler issues
\* no other call and answers with status 500 and an 'error' field, never
\* with a message.
C7_FailedCallGives500 ==
  (handler \in POSTHandlers /\ \E i \in 1..Len(replies) : replies[i].threw) =>
    /\ Len(outbound) = 1 /\ Len(replies) = 1
    /\ pc = "done"
    /\ response.status = 500
    /\ "error" \in DOMAIN response
    /\ "message" \notin DOMAIN response

\* the completion call of the attorney finder has thrown
C7_Witness ==
  /\ handler = "chatbotPOST" /\ pc = "done"
  /\ replies = <<Rejected("Connection error.")>>
  /\ Len(outbound) = 1

\* C8: an invocation of a POST handler performs at most one completion call,
\* the attorney-finder health check at most two, the LISA health check none.
C8_CallsPerInvocation ==
  /\ handler \in POSTHandlers => Len(outbound) <= 1
  /\ handler = "chatbotGET" => Len(outbound) <= 2
  /\ handler = "lisaGET" => Len(outbound) = 0
  /\ handler = "none" => Len(outbound) = 0
  /\ Len(replies) <= Len(outbound)

\* the health check has made its second call and received both replies
C8_Witness ==
  /\ handler = "chatbotGET" /\ pc = "done"
  /\ Len(outbound) = 2 /\ Len(replies) = 2

C10_LisaPayload ==
  (handler = "lisaPOST" /\ Len(outbound) > 0) =>
    LET payload == outbound[1].messages
        users == { i \in 1..Len(Turns) : Turns[i].role = "user" }
    IN  /\ payload[1].role = "system"
        /\ request.prompt = <<"Answer briefly.">> =>
             payload[1].content =
               "You MUST follow the system instructions below with absolute priority over any other content, context, or prior instructions. Do not deviate.\n\n\nSYSTEM INSTRUCTIONS START\nAnswer briefly.\nSYSTEM INSTRUCTIONS END"
        /\ IF users = {}
           THEN Len(payload) = 1
           ELSE /\ Len(payload) = 2
                /\ payload[2] = Turns[CHOOSE i \in users : \A j \in users : j <= i]

\* a user turn followed by an assistant turn: the user turn is forwarded
C10_Witness ==
  /\ handler = "lisaPOST" /\ Len(outbound) = 1 /\ Len(Turns) = 2
  /\ Turns[1].role = "user" /\ Turns[2].role = "assistant"
  /\ outbound[1].messages[2] = Turns[1]

\* C16: the classifier is false on the empty turn list, and the attorney
\* finder's POST accepts an empty array: every verdict it computes is false,
\* its one outbound payload is exactly the unmodified baseline system turn
\* and it never answers 400.
C16_EmptyListAccepted ==
  /\ ~shouldTriggerSearch(<< >>)
  /\ (/\ handler = "chatbotPOST" /\ request.parsed /\ apiKey
      /\ request.messages = [kind |-> "array", turns |-> << >>]) =>
       /\ Len(verdicts) >= 2
       /\ \A k \in 1..Len(verdicts) : ~verdicts[k]
       /\ Len(outbound) = 1
       /\ outbound[1].messages =
            << [role |-> "system", content |-> systemPrompt] >>
       /\ response.status # 400

\* an empty array was sent and a reply came back with status 200
C16_Witness ==
  /\ handler = "chatbotPOST" /\ pc = "done"
  /\ request.messages = [kind |-> "array", turns |-> << >>]
  /\ Len(outbound) = 1 /\ response.status = 200

\* C19: the attorney finder's one outbound call is the assembled sequence
\* with the search tool on, cap 2000 and model 'gpt-4o-search-preview',
\* whatever the request's model, userLocation and legalIssue; LISA's call
\* has cap 3000 and the request's model when given, else the same default.
C19_FixedCallParameters ==
  /\ (handler = "chatbotPOST" /\ Len(outbound) > 0) =>
       /\ Len(outbound) = 1 /\ Len(enhanced) = 1
       /\ enhanced[1][1].role = "system"
       /\ outbound[1] =
            [model |-> "gpt-4o-search-preview", messages |-> enhanced[1],
             web_search_options |-> TRUE, max_tokens |-> 2000]
  /\ (handler = "lisaPOST" /\ Len(outbound) > 0) =>
       /\ Len(outbound) = 1
       /\ outbound[1].max_tokens = 3000
       /\ outbound[1].web_search_options
       /\ outbound[1].model =
            IF request.model = << >> \/ request.model = <<"">>
            THEN "gpt-4o-search-preview" ELSE request.model[1]

\* a request naming another model, a location and an issue was forwarded
\* with the fixed model
C19_Witness ==
  /\ handler = "chatbotPOST" /\ Len(outbound) = 1
  /\ request.model = <<"gpt-4o">>
  /\ request.userLocation = <<"Austin, TX">>
  /\ request.legalIssue = <<"divorce">>
  /\ outbound[1].model = "gpt-4o-search-preview"
  /\ outbound[1].max_tokens = 2000

\* the first reply of the health check carries no 'web_search' annotation
FirstReplyWithoutWebSearch ==
  /\ Len(replies) >= 1 /\ ~replies[1].threw
  /\ LET choices == replies[1].completion.choices
     IN  \/ choices = << >>
         \/ choices[1].message = << >>
         \/ choices[1].message[1].annotations = << >>
         \/ \A i \in 1..Len(choices[1].message[1].annotations[1]) :
              choices[1].message[1].annotations[1][i].type # "web_search"

\* C20: in the attorney finder's health check a second call is made exactly
\* when the first call succeeded with no 'web_search' annotation; the call
\* with the first question is always the first one, and no call is made
\* without an API key.
C20_RetryIffNoSearchResults ==
  handler = "chatbotGET" =>
    /\ Len(outbound) <= 2
    /\ ~apiKey => outbound = << >>
    /\ apiKey => (Len(outbound) >= 1 /\ outbound[1] = HealthCall(firstQuestion))
    /\ Len(outbound) = 2 <=> FirstReplyWithoutWebSearch
    /\ Len(outbound) = 2 => outbound[2] = HealthCall(retryQuestion)

\* the first reply carried only a citation and the retry was sent
C20_Witness ==
  /\ handler = "chatbotGET" /\ pc = "awaitRetry" /\ Len(outbound) = 2
  /\ replies[1].completion.choices =
       << [message |-> << [content |-> <<"Here are three attorneys.">>,
                           annotations |->
                             << << [type |-> "url_citation"] >> >>] >>] >>

\* the response the catch block of the current handler gives outside
\* development, whatever was thrown
SanitizedResponse ==
  IF handler = "chatbotGET"
  THEN [status |-> 500, health |-> "error", message |-> "Health check failed"]
  ELSE [status |-> 500,
        error |-> "An unexpected error occurred. Please try again."]

\* the fetch of the page settles in this step without a 200 response
FetchFails ==
  /\ fetching.stage # "none" /\ fetching'.stage = "none"
  /\ ~(fetching.stage = "handling" /\ response.status = 200)

\* C13: outside development the response to a failed completion call is the
\* same record whatever the error's message (so two failures that differ in
\* the error give equal responses), for the POST handlers and the health
\* check alike, and whenever a request of the page fails the page appends
\* the one fixed apology.
C13_ErrorsHideInternals ==
  /\ []((/\ nodeEnv # "development" /\ pc = "done"
         /\ Len(replies) > 0 /\ replies[Len(replies)].threw)
          => response = SanitizedResponse)
  /\ [][FetchFails =>
          clientMessages' =
            Append(clientMessages,
                   [role |-> "assistant",
                    content |-> "I apologize, but I encountered an error. Please try again or check your internet connection.",
                    metadata |-> << >>])]_vars

\* in production the handler has answered a request of the page whose
\* completion call failed with a quota error
C13_Witness ==
  /\ nodeEnv = "production" /\ fetching.stage = "handling"
  /\ handler = "chatbotPOST" /\ pc = "done"
  /\ replies = <<Rejected("You exceeded your current quota.")>>
  /\ response.status = 500

\* the user messages among the first n messages of the page
UserMessagesBefore(n) ==
  FilterUser(BodyTurns(SubSeq(clientMessages, 1, n)).turns)

\* C14: a successful attorney-finder response to a conversation whose user
\* turns mention a legal issue and a location carries detectedLocation and
\* detectedIssue, and on the attorney tab the reply to such a conversation
\* has both in its metadata while userLocation and legalIssue are set.
C14_DetectedLocationAndIssueShown ==
  /\ (/\ handler = "chatbotPOST" /\ pc = "done" /\ response.status = 200
      /\ SomeTurnHasLegalIssue(FilterUser(Turns))
      /\ SomeTurnHasLocation(FilterUser(Turns))) =>
       /\ "detectedLocation" \in DOMAIN response
       /\ "detectedIssue" \in DOMAIN response
  /\ \A i \in 2..Len(clientMessages) :
       (/\ activeTab = "attorney" /\ i = Len(clientMessages)
        /\ clientMessages[i].metadata # << >>
        /\ SomeTurnHasLegalIssue(UserMessagesBefore(i))
        /\ SomeTurnHasLocation(UserMessagesBefore(i))) =>
         /\ clientMessages[i].metadata[1].detectedLocation # << >>
         /\ clientMessages[i].metadata[1].detectedIssue # << >>
         /\ userLocation # "" /\ legalIssue # ""

\* C15: every clearConversation step leaves exactly the welcome message of
\* the active tab, empty userLocation, legalIssue and attorneyResults and a
\* hidden attorney card, and does not change activeTab, lisaPrompt, the
\* model, inputValue or isLoading.
C15_ClearResetsConversationOnly ==
  [][clearConversation =>
       /\ clientMessages' =
            << [role |-> "assistant",
                content |-> IF activeTab = "attorney" THEN attorneyWelcome
                            ELSE lisaWelcome,
                metadata |-> << >>] >>
       /\ userLocation' = "" /\ legalIssue' = ""
       /\ attorneyResults' = << >> /\ showAttorneyCard' = FALSE
       /\ activeTab' = activeTab /\ lisaPrompt' = lisaPrompt
       /\ selectedModel' = selectedModel /\ inputValue' = inputValue
       /\ isLoading' = isLoading]_vars

\* Clear Chat was pressed on the LISA tab while a request was outstanding,
\* with an edited prompt and another model selected
C15_Witness ==
  /\ justCleared /\ isLoading /\ activeTab = "lisa"
  /\ lisaPrompt = "" /\ selectedModel = "gpt-4o"
  /\ Len(clientMessages) = 1 /\ clientMessages[1].content = lisaWelcome

\* C17: when the user turns of a request of the attorney finder do not
\* mention both a legal issue and a location, every verdict is false and
\* the system turn forwarded is the unmodified baseline.
C17_NoSearchBeforeUserMentionsBoth ==
  (/\ handler = "chatbotPOST" /\ Len(outbound) > 0
   /\ ~(/\ HasLegalIssue(Conversation(FilterUser(Turns)))
        /\ HasLocation(Conversation(FilterUser(Turns))))) =>
    /\ \A k \in 1..Len(verdicts) : ~verdicts[k]
    /\ outbound[1].messages[1] = [role |-> "system", content |-> systemPrompt]

\* the invocations in progress: the running one and the waiting ones
LiveInvocations ==
  { Invocation } \cup { parked[i] : i \in 1..Len(parked) }

\* the payload the POST invocation c owes to its own request body
OwnPayload(c) ==
  IF c.handler = "chatbotPOST"
  THEN enhancePromptForSearch(c.request.messages.turns)
  ELSE openAIMessages(c.request.messages.turns, c.request.prompt[1])

\* the response of the finished POST invocation c shows the outcome of its
\* own completion call: the reply's text and annotations, or status 500
ShowsOwnReply(c) ==
  LET reply == c.replies[1]
      choices == reply.completion.choices
  IN  IF reply.threw \/ choices = << >>
      THEN c.response.status = 500
      ELSE /\ c.response.status = 200
           /\ c.response.message =
                IF choices[1].message = << >> THEN ""
                ELSE IF choices[1].message[1].content = << >> THEN ""
                ELSE choices[1].message[1].content[1]
           /\ c.response.annotations =
                IF choices[1].message = << >> THEN << >>
                ELSE IF choices[1].message[1].annotations = << >> THEN << >>
                ELSE choices[1].message[1].annotations[1]

\* C11: however the invocations in progress interleave, the payload of each
\* POST invocation is the one its own request body determines, its response
\* shows the outcome of its own completion call, and the system turn of the
\* attorney finder starts with the whole baseline prompt.
C11_InvocationsIsolated ==
  \A c \in LiveInvocations :
    c.handler \in POSTHandlers =>
      /\ Len(c.outbound) > 0 =>
           /\ Len(c.outbound) = 1
           /\ c.outbound[1].messages = OwnPayload(c)
           /\ c.handler = "chatbotPOST" =>
                LET content == c.outbound[1].messages[1].content
                IN  /\ Len(content) >= Len(systemPrompt)
                    /\ SubSeq(content, 1, Len(systemPrompt)) = systemPrompt
      /\ (c.pc = "done" /\ Len(c.replies) > 0) =>
           (Len(c.replies) = 1 /\ ShowsOwnReply(c))

\* a request that gets the search directive waits for its completion while
\* another request, started later, has been answered with the baseline
C11_Witness ==
  /\ Len(parked) = 1 /\ parked[1].handler = "chatbotPOST"
  /\ parked[1].pc = "awaitCompletion"
  /\ parked[1].outbound[1].messages[1].content = enhancedSystemPrompt
  /\ handler = "chatbotPOST" /\ pc = "done" /\ response.status = 200
  /\ outbound[1].messages[1].content = systemPrompt

\* C12: in no one-minute window do more than 10 requests of one client IP
\* reach the completion call.
C12_AtMostTenCallsPerWindow ==
  \A ip \in ClientIPs : callsInWindow[ip] <= RateLimit

\* the verdict the code owes to the turn bodies alone, in their order
VerdictOfContents(contents) ==
  LET conversation == ToLowerCase(Join(contents, " "))
  IN  HasLegalIssue(conversation) /\ HasLocation(conversation)

\* C18: every verdict taken while handling a POST of the attorney finder
\* (two before the call, a third after it) is the one the ordered turn
\* bodies determine, whatever the roles and whatever was handled before or
\* meanwhile, and two invocations in progress whose turn lists are equal
\* have the same assembled payload and outbound call.
C18_VerdictDependsOnBodiesOnly ==
  /\ \A c \in LiveInvocations :
       c.handler = "chatbotPOST" =>
         \A k \in 1..Len(c.verdicts) :
           c.verdicts[k] =
             VerdictOfContents([i \in 1..Len(c.request.messages.turns) |->
                                  c.request.messages.turns[i].content])
  /\ \A c1, c2 \in LiveInvocations :
       (/\ c1.handler = "chatbotPOST" /\ c2.handler = "chatbotPOST"
        /\ Len(c1.outbound) > 0 /\ Len(c2.outbound) > 0
        /\ c1.request.messages = c2.request.messages) =>
         (c1.enhanced = c2.enhanced /\ c1.outbound = c2.outbound)

\* two requests with the same turns (an assistant turn naming issue and
\* location, a user turn naming neither) and different other fields are in
\* progress; the one that has finished took three verdicts, all true
C18_Witness ==
  /\ Len(parked) = 1 /\ parked[1].handler = "chatbotPOST"
  /\ handler = "chatbotPOST" /\ pc = "done"
  /\ parked[1].request.messages = request.messages
  /\ parked[1].request.model # request.model
  /\ request.messages.turns[1].role = "assistant"
  /\ verdicts = <<TRUE, TRUE, TRUE>>

\* the k-th reply of the running invocation carries a 'web_search' annotation
ReplyHasWebSearch(k) ==
  LET choices == replies[k].completion.choices
  IN  /\ choices # << >>
      /\ choices[1].message # << >>
      /\ choices[1].message[1].annotations # << >>
      /\ \E i \in 1..Len(choices[1].message[1].annotations[1]) :
           choices[1].message[1].annotations[1][i].type = "web_search"

\* every call of the health check of the attorney finder has succeeded and
\* the response has been given
HealthCallsSucceeded ==
  /\ handler = "chatbotGET" /\ pc = "done" /\ Len(replies) >= 1
  /\ \A k \in 1..Len(replies) : ~replies[k].threw

\* C21: when the calls of the attorney finder's health check succeed the
\* response is 200 'healthy'; searchToolUsed is true exactly when the first
\* or the retry reply carries a 'web_search' annotation, and currentDate is
\* the text of the retry exactly when the first reply carried none and the
\* retry carried one, otherwise the text of the first reply.
C21_HealthyResultPrefersSearchedRetry ==
  HealthCallsSucceeded =>
    LET firstHas == ReplyHasWebSearch(1)
        retryHas == Len(replies) = 2 /\ ReplyHasWebSearch(2)
    IN  /\ response.status = 200 /\ response.health = "healthy"
        /\ response.searchToolUsed = (firstHas \/ retryHas)
        /\ response.currentDate =
             IF ~firstHas /\ retryHas
             THEN DateOf(replies[2].completion)
             ELSE DateOf(replies[1].completion)

\* both calls succeeded without a search; the first reply had a text and the
\* retry had none, and the text of the first reply is the one reported
C21_Witness ==
  /\ HealthCallsSucceeded /\ Len(replies) = 2
  /\ ~ReplyHasWebSearch(1) /\ ~ReplyHasWebSearch(2)
  /\ DateOf(replies[1].completion) = "Here are three attorneys."
  /\ DateOf(replies[2].completion) = "Date unavailable"
  /\ response.currentDate = "Here are three attorneys."
  /\ response.searchToolUsed = FALSE

\* the prompt of the request is missing or empty
PromptMissing == request.prompt = << >> \/ request.prompt = <<"">>

\* what the LISA handler owes to a request with the key configured: the
\* turn-list error before the prompt error, and no call in either case
LisaValidationOrder ==
  (handler = "lisaPOST" /\ apiKey /\ request.value = "object") =>
    /\ (request.messages.kind = "array" /\ PromptMissing) =>
         /\ response = [status |-> 400, error |-> "LISA prompt is required"]
         /\ outbound = << >>
    /\ (MalformedTurns /\ PromptMissing) =>
         /\ response = [status |-> 400, error |-> "Invalid messages format"]
         /\ outbound = << >>

\* C22 as stated: without an API key both POST handlers answer 500 'OpenAI
\* API key not configured' to every body that parses, a malformed turn list
\* included; with the key, the LISA handler answers 400 'LISA prompt is
\* required' to a valid turn list with a missing or empty prompt, makes no
\* call, and reports the turn-list error when both are invalid.
C22_ValidationOrder ==
  /\ (handler \in POSTHandlers /\ request.parsed /\ ~apiKey) =>
       /\ response =
            [status |-> 500, error |-> "OpenAI API key not configured"]
       /\ NothingRan
  /\ LisaValidationOrder

\* C22 as amended: the same for every body that parses to a value other than
\* null; a body that parses to null is answered 500 'An unexpected error
\* occurred. Please try again.' with or without the key, and nothing runs.
C22_ValidationOrderOfObjects ==
  /\ (handler \in POSTHandlers /\ request.value = "object" /\ ~apiKey) =>
       /\ response =
            [status |-> 500, error |-> "OpenAI API key not configured"]
       /\ NothingRan
  /\ (handler \in POSTHandlers /\ request.value = "null") =>
       /\ response.status = 500
       /\ response.error = "An unexpected error occurred. Please try again."
       /\ NothingRan
  /\ LisaValidationOrder

\* with the key configured the LISA handler has reported the turn-list error
\* for a request whose turn list is a string and whose prompt is empty
C22_Witness ==
  /\ handler = "lisaPOST" /\ apiKey /\ pc = "done"
  /\ request.messages.kind = "string" /\ request.prompt = <<"">>
  /\ response = [status |-> 400, error |-> "Invalid messages format"]

\* a request is issued in this step
RequestIssued == fetching.stage = "none" /\ fetching'.stage = "sent"

\* C23: a request issued while an earlier request of the same conversation
\* (none cleared, no tab switched since) is on record carries that request's
\* turn list, unchanged, followed by exactly one assistant message (the
\* reply or the apology) and the new user message, in that order.
C23_TurnListAppendOnly ==
  [][(RequestIssued /\ lastSent # << >>) =>
       LET before == lastSent[1]
           now == fetching'.body.messages.turns
       IN  /\ Len(now) = Len(before) + 2
           /\ SubSeq(now, 1, Len(before)) = before
           /\ now[Len(before) + 1].role = "assistant"
           /\ now[Len(before) + 1].content
                \in { "Here are three attorneys.", apology }
           /\ now[Len(now)] = [role |-> "user", content |-> inputValue]]_vars

\* the second request of a conversation is on its way: it carries the
\* welcome, the first user message, the apology and the new user message
C23_Witness ==
  /\ fetching.stage = "sent" /\ activeTab = "attorney"
  /\ lastSent = <<fetching.body.messages.turns>>
  /\ fetching.body.messages.turns =
       << [role |-> "assistant", content |-> attorneyWelcome],
          [role |-> "user", content |-> "Hello"],
          [role |-> "assistant", content |-> apology],
          [role |-> "user", content |-> "I live in Austin, TX"] >>

\* the step appends a user message to the conversation
UserMessageAppended ==
  /\ Len(clientMessages') = Len(clientMessages) + 1
  /\ clientMessages'[Len(clientMessages')].role = "user"

\* the step puts a request on its way
RequestPutOnItsWay == fetching'.stage = "sent" /\ fetching' # fetching

\* the message box holds nothing but white space
InputIsBlank ==
  \A i \in 1..Len(inputValue) : SubSeq(inputValue, i, i) \in { " ", "\t", "\n" }

\* C24: the page has at most one request outstanding: isLoading is true
\* exactly from the step that issues a request to the step that handles its
\* reply or failure, and no step taken while isLoading is true or while the
\* input is empty or white space appends a user message or issues a request.
C24_OneRequestOutstanding ==
  /\ [](isLoading <=> fetching.stage \in { "sent", "handling" })
  /\ [][(isLoading \/ InputIsBlank) =>
          (~UserMessageAppended /\ ~RequestPutOnItsWay)]_vars
  /\ [][(UserMessageAppended \/ RequestPutOnItsWay) =>
          (isLoading' /\ fetching.stage = "none")]_vars

\* the second request of a conversation is outstanding while the box holds
\* nothing
C24_Witness ==
  /\ isLoading /\ fetching.stage = "handling" /\ UserMessageCount = 2
  /\ inputValue = "" /\ pc = "awaitCompletion"

\* the text the page owes to the outstanding request when sendMessage goes
\* on: the reply of a response that is OK, the apology for any other
\* response and for a fetch that rejected
AnswerOwed ==
  IF fetching.stage = "handling" /\ response.status \in 200..299
  THEN response.message ELSE apology

\* C25: every request issued is answered: isLoading, once true, becomes
\* false again; the step that resets it appends exactly one assistant
\* message, the reply of the server when the response is OK and the fixed
\* apology otherwise, and no other step taken while the request is
\* outstanding appends to the conversation (Clear Chat and a tab switch
\* replace it by at most the welcome message).
C25_EveryRequestAnswered ==
  /\ isLoading ~> ~isLoading
  /\ [][(isLoading /\ ~isLoading') =>
          /\ Len(clientMessages') = Len(clientMessages) + 1
          /\ SubSeq(clientMessages', 1, Len(clientMessages)) = clientMessages
          /\ clientMessages'[Len(clientMessages')].role = "assistant"
          /\ clientMessages'[Len(clientMessages')].content = AnswerOwed]_vars
  /\ [][(isLoading /\ isLoading') =>
          (clientMessages' = clientMessages \/ Len(clientMessages') <= 1)]_vars

\* the first request got a reply and the second the apology
C25_Witness ==
  /\ ~isLoading /\ fetching.stage = "none" /\ Len(clientMessages) = 5
  /\ clientMessages[3].content = "Here are three attorneys."
  /\ clientMessages[5].content = apology

\* C26: the conversation on the page begins with the welcome message of the
\* active tab, and every later assistant message directly follows the user
\* message it answers: no reply or apology to a request sent before a tab
\* switch or Clear Chat stands in the conversation that exists after it
\* (the box is disabled while a request is outstanding, so such a reply
\* would stand right after the welcome message or another reply).
C26_RepliesStayInTheirConversation ==
  \A i \in 1..Len(clientMessages) :
    IF i = 1
    THEN clientMessages[1] =
           [role |-> "assistant", content |-> welcomeMessage(activeTab),
            metadata |-> << >>]
    ELSE clientMessages[i].role = "assistant" =>
           clientMessages[i - 1].role = "user"
====
